---- MODULE Spec2Model ----
(***************************************************************************)
(* Model of the trading backend of src/app.py: the in-memory collections   *)
(* orders_db, trades_db and portfolio_db, the place-order handler with its *)
(* validation chain, the execution routine and the read-only queries.      *)
(*                                                                         *)
(* Representation.                                                         *)
(*  - Money is counted in paise (1/100 rupee): the catalog price 2450.50   *)
(*    is 245050.  Prices (of the catalog, of a request, of an order, of a  *)
(*    trade) and currentValue are whole numbers of paise.                  *)
(*  - The averagePrice and the totalCost of a holding come out of the      *)
(*    float division of line 192 and need not be whole: they are fractions *)
(*    of paise <<n, d>> in lowest terms, d > 0, so that 2450.50 / 3 is     *)
(*    <<245050, 3>> and 2450.50 is <<245050, 1>>.  The arithmetic on them  *)
(*    is exact where the code rounds to the nearest double.                *)
(*  - A JSON field that is missing (data.get(..) returning None) is the    *)
(*    empty tuple None; a field with value v is the one-element tuple <<v>>.*)
(*  - orders_db is a dict keyed by a fresh uuid4 string.  The model keeps  *)
(*    it as the sequence of orders in insertion order and uses the position*)
(*    as the identifier; tradeId is likewise the position in trades_db.    *)
(*  - portfolio_db is a dict; Python dicts keep insertion order, so it is  *)
(*    the sequence of its (symbol, holding) items in insertion order.      *)
(*  - The timestamp fields (datetime.now()) are left out: nothing reads    *)
(*    them.                                                                *)
(***************************************************************************)
EXTENDS Integers, Sequences, FiniteSets, TLC

VARIABLES orders_db, trades_db, portfolio_db, response, threads

vars == <<orders_db, trades_db, portfolio_db, response, threads>>

dbs == <<orders_db, trades_db, portfolio_db>>

(***************************************************************************)
(* Bounds of the model.                                                    *)
(***************************************************************************)
\* accepted orders in a run of the sequential specification
MaxOrders == 3
\* accepted orders in a run of the specification with raw requests
MaxRawOrders == 1
\* accepted orders in a run of the threaded specification
MaxConcOrders == 3
\* accepted orders in a run of the specification that calls execute_order
MaxExecOrders == 2
\* trades in a run of the specification that calls execute_order
MaxExecTrades == 4

(***************************************************************************)
(* Reference data and constants of src/app.py.                             *)
(***************************************************************************)
instruments_db ==
    << [symbol |-> "RELIANCE",  exchange |-> "NSE", instrumentType |-> "EQUITY", lastTradedPrice |-> 245050],
       [symbol |-> "TCS",       exchange |-> "NSE", instrumentType |-> "EQUITY", lastTradedPrice |-> 368025],
       [symbol |-> "INFY",      exchange |-> "NSE", instrumentType |-> "EQUITY", lastTradedPrice |-> 154275],
       [symbol |-> "HDFCBANK",  exchange |-> "NSE", instrumentType |-> "EQUITY", lastTradedPrice |-> 162530],
       [symbol |-> "ICICIBANK", exchange |-> "NSE", instrumentType |-> "EQUITY", lastTradedPrice |-> 108960] >>

MOCK_USER_ID == "user123"

None == <<>>

Some(v) == <<v>>

(***************************************************************************)
(* Requests.  A body is None (no JSON object, or the empty object: both    *)
(* are falsy) or <<fields>>, where every field is None or <<value>>.       *)
(* Requests are the requests of a client that fills the fields in with     *)
(* values of the right kind; RawRequests are arbitrary bodies, with        *)
(* missing, empty, unknown and non-positive values in every combination.   *)
(***************************************************************************)
Bodies ==
    [orderType : {Some("BUY"), Some("SELL")},
     orderStyle : {Some("MARKET"), Some("LIMIT")},
     symbol : {Some("RELIANCE"), Some("TCS")},
     quantity : {Some(0), Some(1), Some(2)},
     price : {None, Some(368000)}]

Requests == {None} \cup {Some(b) : b \in Bodies}

RawBodies ==
    [orderType : {None, Some("BUY"), Some("SELL"), Some("HOLD")},
     orderStyle : {None, Some("MARKET"), Some("LIMIT"), Some("STOP")},
     symbol : {None, Some(""), Some("RELIANCE"), Some("TCS"), Some("XYZ")},
     quantity : {None, Some(0), Some(0 - 1), Some(1), Some(2)},
     price : {None, Some(0), Some(0 - 100), Some(368000)}]

RawRequests == {None} \cup {Some(b) : b \in RawBodies}

(***************************************************************************)
(* Python dict operations on portfolio_db.                                 *)
(***************************************************************************)
Keys(pf) == {pf[i].symbol : i \in 1..Len(pf)}

IndexOf(pf, s) == CHOOSE i \in 1..Len(pf) : pf[i].symbol = s

\* portfolio_db[s]
Item(pf, s) == pf[IndexOf(pf, s)].holding

\* portfolio_db[s] = h
SetItem(pf, s, h) ==
    IF s \in Keys(pf)
    THEN [pf EXCEPT ![IndexOf(pf, s)].holding = h]
    ELSE Append(pf, [symbol |-> s, holding |-> h])

\* DelItem that removes nothing
DelItem_Keeps(pf, s) == pf

\* del portfolio_db[s]
DelItem(pf, s) == SelectSeq(pf, LAMBDA e : e.symbol # s)

\* portfolio_db.get(symbol, {}).get('quantity', 0)
HeldQuantity(pf, s) == IF s \in Keys(pf) THEN Item(pf, s).quantity ELSE 0

\* next((i for i in instruments_db if i['symbol'] == symbol), None)
FindInstrument(s) ==
    LET hits == SelectSeq(instruments_db, LAMBDA i : Some(i.symbol) = s)
    IN  IF Len(hits) = 0 THEN None ELSE Some(hits[1])

(***************************************************************************)
(* Python truthiness of an optional field: `not x`.                        *)
(***************************************************************************)
\* not x, for a string field: None and "" are falsy
NotStr(x) == x = None \/ x = Some("")

\* not x, for a number field: None and 0 are falsy
NotNum(x) == x = None \/ x = Some(0)

(***************************************************************************)
(* place_order, lines 42-76: the validation chain.  Each check is the      *)
(* condition of one `if` of the handler; Validate is the chain of early    *)
(* returns and yields the message of the 400 response, "" when the request *)
(* passes.                                                                 *)
(***************************************************************************)
\* line 42: if not data
BodyMissing(data) == data = None

\* BadOrderType testing only that the field is there
BadOrderType_PresenceOnly(d) == d.orderType = None

\* line 52: if order_type not in ['BUY', 'SELL']
BadOrderType(d) == d.orderType \notin {Some("BUY"), Some("SELL")}

\* line 55: if order_style not in ['MARKET', 'LIMIT']
BadOrderStyle(d) == d.orderStyle \notin {Some("MARKET"), Some("LIMIT")}

\* line 58: if not symbol
SymbolMissing(d) == NotStr(d.symbol)

\* line 61: if not quantity or quantity <= 0
BadQuantity(d) == NotNum(d.quantity) \/ d.quantity[1] <= 0

\* line 64: if order_style == 'LIMIT' and not price
PriceMissing(d) == d.orderStyle = Some("LIMIT") /\ NotNum(d.price)

\* lines 68-69: if not instrument
UnknownSymbol(d) == FindInstrument(d.symbol) = None

\* InsufficientHoldings with <= for <
InsufficientHoldings_OffByOne(d, pf) ==
    d.orderType = Some("SELL") /\ HeldQuantity(pf, d.symbol[1]) <= d.quantity[1]

\* lines 73-75: SELL and holding.get('quantity', 0) < quantity
InsufficientHoldings(d, pf) ==
    d.orderType = Some("SELL") /\ HeldQuantity(pf, d.symbol[1]) < d.quantity[1]

\* Validate with the catalog lookup moved before the quantity check
Validate_SymbolBeforeQuantity(data, pf) ==
    IF BodyMissing(data) THEN "Request body is required"
    ELSE LET d == data[1] IN
         IF BadOrderType(d) THEN "orderType must be BUY or SELL"
         ELSE IF BadOrderStyle(d) THEN "orderStyle must be MARKET or LIMIT"
         ELSE IF SymbolMissing(d) THEN "symbol is required"
         ELSE IF UnknownSymbol(d) THEN "Invalid symbol: " \o d.symbol[1]
         ELSE IF BadQuantity(d) THEN "quantity must be greater than 0"
         ELSE IF PriceMissing(d) THEN "price is required for LIMIT orders"
         ELSE IF InsufficientHoldings(d, pf) THEN "Insufficient holdings to sell"
         ELSE ""

Validate(data, pf) ==
    IF BodyMissing(data) THEN "Request body is required"
    ELSE LET d == data[1] IN
         IF BadOrderType(d) THEN "orderType must be BUY or SELL"
         ELSE IF BadOrderStyle(d) THEN "orderStyle must be MARKET or LIMIT"
         ELSE IF SymbolMissing(d) THEN "symbol is required"
         ELSE IF BadQuantity(d) THEN "quantity must be greater than 0"
         ELSE IF PriceMissing(d) THEN "price is required for LIMIT orders"
         ELSE IF UnknownSymbol(d) THEN "Invalid symbol: " \o d.symbol[1]
         ELSE IF InsufficientHoldings(d, pf) THEN "Insufficient holdings to sell"
         ELSE ""

\* jsonify({"status": "error", "message": m}), code
ErrorResponse(code, m) == [code |-> code, status |-> "error", message |-> m]

\* jsonify({"status": "success", "data": x}), code
SuccessResponse(code, x) == [code |-> code, status |-> "success", data |-> x]

(***************************************************************************)
(* execute_order, lines 157-199.  db is the record of the three            *)
(* collections [orders, trades, portfolio]; the result is the record after *)
(* the call.                                                               *)
(***************************************************************************)
\* the amounts of a holding: fractions of paise in lowest terms
RECURSIVE GCD(_, _)
GCD(a, b) == IF b = 0 THEN a ELSE GCD(b, a % b)

Abs(i) == IF i < 0 THEN 0 - i ELSE i

\* n / d for d # 0; as in the code, there is no quotient by 0
Fraction(n, d) ==
    LET sign == d \div Abs(d)
        g    == GCD(Abs(n), Abs(d))
    IN  <<(sign * n) \div g, Abs(d) \div g>>

\* the whole amount i
Whole(i) == <<i, 1>>

\* amount + i, i * amount and amount / i, for an integer i
Plus(amount, i) == Fraction(amount[1] + (i * amount[2]), amount[2])

Times(i, amount) == Fraction(i * amount[1], amount[2])

Over(amount, i) == Fraction(amount[1], amount[2] * i)

\* line 182
EmptyHolding == [quantity |-> 0, averagePrice |-> Whole(0), totalCost |-> Whole(0)]

\* lines 167-176
NewTrade(order, trade_id) ==
    [tradeId |-> trade_id, orderId |-> order.orderId, userId |-> order.userId,
     symbol |-> order.symbol, orderType |-> order.orderType,
     quantity |-> order.quantity, price |-> order.price]

\* BuyUpdate that forgets the cost already booked
BuyUpdate_ForgetsCost(holding, order) ==
    LET new_total_cost == Whole(order.quantity * order.price)
        new_quantity   == holding.quantity + order.quantity
    IN  [quantity |-> new_quantity, totalCost |-> new_total_cost,
         averagePrice |-> Over(new_total_cost, new_quantity)]

\* BuyUpdate putting the bought quantity in place of the held one
BuyUpdate_ReplacesQuantity(holding, order) ==
    LET new_total_cost == Plus(holding.totalCost, order.quantity * order.price)
        new_quantity   == order.quantity
    IN  [quantity |-> new_quantity, totalCost |-> new_total_cost,
         averagePrice |-> Over(new_total_cost, new_quantity)]

\* lines 188-192: the BUY branch, on the holding
BuyUpdate(holding, order) ==
    LET new_total_cost == Plus(holding.totalCost, order.quantity * order.price)
        new_quantity   == holding.quantity + order.quantity
    IN  [quantity |-> new_quantity, totalCost |-> new_total_cost,
         averagePrice |-> Over(new_total_cost, new_quantity)]

\* SellUpdate spreading the old cost over what is left
SellUpdate_RecomputesAverage(pf, symbol, order) ==
    LET holding == Item(pf, symbol)
        left    == holding.quantity - order.quantity
    IN  IF left = 0
        THEN DelItem(pf, symbol)
        ELSE SetItem(pf, symbol,
                     [holding EXCEPT !.quantity = left,
                                     !.averagePrice = Over(holding.totalCost, left)])

\* SellUpdate without the removal of an exhausted holding (lines 196-197 dropped)
SellUpdate_KeepsEmpty(pf, symbol, order) ==
    LET holding == Item(pf, symbol)
        left    == holding.quantity - order.quantity
    IN  SetItem(pf, symbol,
                [holding EXCEPT !.quantity = left,
                                !.totalCost = Times(left, holding.averagePrice)])

\* SellUpdate without the re-derivation of totalCost (line 199 dropped)
SellUpdate_StaleCost(pf, symbol, order) ==
    LET holding == Item(pf, symbol)
        left    == holding.quantity - order.quantity
    IN  IF left = 0
        THEN DelItem(pf, symbol)
        ELSE SetItem(pf, symbol, [holding EXCEPT !.quantity = left])

\* lines 195-199: the SELL branch, on portfolio_db
SellUpdate(pf, symbol, order) ==
    LET holding == Item(pf, symbol)
        left    == holding.quantity - order.quantity
    IN  IF left = 0
        THEN DelItem(pf, symbol)
        ELSE SetItem(pf, symbol,
                     [holding EXCEPT !.quantity = left,
                                     !.totalCost = Times(left, holding.averagePrice)])

\* lines 180-199: the portfolio update
UpdatePortfolio(pf, order) ==
    LET symbol == order.symbol
        pf0 == IF symbol \notin Keys(pf) THEN SetItem(pf, symbol, EmptyHolding) ELSE pf
    IN  IF order.orderType = "BUY"
        THEN SetItem(pf0, symbol, BuyUpdate(Item(pf0, symbol), order))
        ELSE SellUpdate(pf0, symbol, order)

\* execute_order returning early for an order that is EXECUTED already
execute_order_Once(order_id, db) ==
    IF order_id \notin DOMAIN db.orders THEN db
    ELSE IF db.orders[order_id].status = "EXECUTED" THEN db
    ELSE LET order == db.orders[order_id] IN
         [orders    |-> [db.orders EXCEPT ![order_id].status = "EXECUTED"],
          trades    |-> Append(db.trades, NewTrade(order, Len(db.trades) + 1)),
          portfolio |-> UpdatePortfolio(db.portfolio, order)]

\* execute_order putting the new trade in front of the log
execute_order_NewestFirst(order_id, db) ==
    IF order_id \notin DOMAIN db.orders THEN db
    ELSE LET order == db.orders[order_id] IN
         [orders    |-> [db.orders EXCEPT ![order_id].status = "EXECUTED"],
          trades    |-> <<NewTrade(order, Len(db.trades) + 1)>> \o db.trades,
          portfolio |-> UpdatePortfolio(db.portfolio, order)]

\* execute_order without the status update of line 164
execute_order_KeepsStatus(order_id, db) ==
    IF order_id \notin DOMAIN db.orders
    THEN db
    ELSE LET order == db.orders[order_id] IN
         [orders    |-> db.orders,
          trades    |-> Append(db.trades, NewTrade(order, Len(db.trades) + 1)),
          portfolio |-> UpdatePortfolio(db.portfolio, order)]

execute_order(order_id, db) ==
    IF order_id \notin DOMAIN db.orders
    THEN db
    ELSE LET order == db.orders[order_id] IN
         [orders    |-> [db.orders EXCEPT ![order_id].status = "EXECUTED"],
          trades    |-> Append(db.trades, NewTrade(order, Len(db.trades) + 1)),
          portfolio |-> UpdatePortfolio(db.portfolio, order)]

(***************************************************************************)
(* place_order, lines 78-101: creation, insertion, execution, response.    *)
(***************************************************************************)
\* NewOrder taking the price of the request whenever it carries one
NewOrder_PrefersRequestPrice(d, order_id) ==
    [orderId |-> order_id, userId |-> MOCK_USER_ID, symbol |-> d.symbol[1],
     orderType |-> d.orderType[1], orderStyle |-> d.orderStyle[1],
     quantity |-> d.quantity[1],
     price |-> IF d.price # None
               THEN d.price[1]
               ELSE FindInstrument(d.symbol)[1].lastTradedPrice,
     status |-> "PLACED"]

\* lines 79-90
NewOrder(d, order_id) ==
    [orderId |-> order_id, userId |-> MOCK_USER_ID, symbol |-> d.symbol[1],
     orderType |-> d.orderType[1], orderStyle |-> d.orderStyle[1],
     quantity |-> d.quantity[1],
     price |-> IF d.orderStyle = Some("LIMIT")
               THEN d.price[1]
               ELSE FindInstrument(d.symbol)[1].lastTradedPrice,
     status |-> "PLACED"]

\* ExecutesImmediately for every style
ExecutesImmediately_Always(order) == TRUE

\* line 95: if order_style == 'MARKET'
ExecutesImmediately(order) == order.orderStyle = "MARKET"

\* the whole handler: the collections and the response after the request
place_order(data, db) ==
    LET m == Validate(data, db.portfolio) IN
    IF m # ""
    THEN [orders |-> db.orders, trades |-> db.trades, portfolio |-> db.portfolio,
          response |-> ErrorResponse(400, m)]
    ELSE LET order_id == Len(db.orders) + 1
             order    == NewOrder(data[1], order_id)
             placed   == [db EXCEPT !.orders = Append(db.orders, order)]
             after    == IF ExecutesImmediately(order)
                         THEN execute_order(order_id, placed)
                         ELSE placed
         IN  [orders |-> after.orders, trades |-> after.trades,
              portfolio |-> after.portfolio,
              response |-> SuccessResponse(201, after.orders[order_id])]

(***************************************************************************)
(* The read-only handlers.                                                 *)
(***************************************************************************)
\* get_order_status missing the order accepted last
get_order_status_MissesLatest(order_id, orders) ==
    IF order_id \notin DOMAIN orders \/ order_id = Len(orders)
    THEN ErrorResponse(404, "Order not found")
    ELSE SuccessResponse(200, orders[order_id])

\* get_order_status, lines 108-118
get_order_status(order_id, orders) ==
    IF order_id \notin DOMAIN orders
    THEN ErrorResponse(404, "Order not found")
    ELSE SuccessResponse(200, orders[order_id])

\* get_trades, lines 123-130
get_trades(trades) ==
    SuccessResponse(200, SelectSeq(trades, LAMBDA t : t.userId = MOCK_USER_ID))

\* PortfolioView valuing a holding at the price of one unit
PortfolioView_UnitValue(e) ==
    LET instrument == FindInstrument(Some(e.symbol))
        current_price == IF instrument # None THEN instrument[1].lastTradedPrice ELSE 0
    IN  [symbol |-> e.symbol, quantity |-> e.holding.quantity,
         averagePrice |-> e.holding.averagePrice,
         currentValue |-> current_price]

\* get_portfolio, lines 139-148: one view per item of portfolio_db
PortfolioView(e) ==
    LET instrument == FindInstrument(Some(e.symbol))
        current_price == IF instrument # None THEN instrument[1].lastTradedPrice ELSE 0
    IN  [symbol |-> e.symbol, quantity |-> e.holding.quantity,
         averagePrice |-> e.holding.averagePrice,
         currentValue |-> e.holding.quantity * current_price]

\* get_portfolio, lines 135-153
get_portfolio(pf) ==
    SuccessResponse(200, [i \in 1..Len(pf) |-> PortfolioView(pf[i])])

\* get_instruments, lines 26-31
get_instruments == SuccessResponse(200, instruments_db)

(***************************************************************************)
(* The sequential system: one request at a time, each run to completion.   *)
(***************************************************************************)
DB == [orders |-> orders_db, trades |-> trades_db, portfolio |-> portfolio_db]

Threads == {1, 2}

IdleThread == [pc |-> "idle"]

Init ==
    /\ orders_db = <<>>
    /\ trades_db = <<>>
    /\ portfolio_db = <<>>
    /\ response = [code |-> 0, status |-> "none"]
    /\ threads = [t \in Threads |-> IdleThread]

PlaceOrderFrom(requests, max) ==
    \E data \in requests :
        LET out == place_order(data, DB) IN
        /\ Len(out.orders) <= max
        /\ orders_db' = out.orders
        /\ trades_db' = out.trades
        /\ portfolio_db' = out.portfolio
        /\ response' = out.response
        /\ UNCHANGED threads

PlaceOrder == PlaceOrderFrom(Requests, MaxOrders)

PlaceRawOrder == PlaceOrderFrom(RawRequests, MaxRawOrders)

GetOrderStatus ==
    \E order_id \in 1..(MaxOrders + 1) :
        /\ response' = get_order_status(order_id, orders_db)
        /\ UNCHANGED <<orders_db, trades_db, portfolio_db, threads>>

GetTrades ==
    /\ response' = get_trades(trades_db)
    /\ UNCHANGED <<orders_db, trades_db, portfolio_db, threads>>

GetPortfolio ==
    /\ response' = get_portfolio(portfolio_db)
    /\ UNCHANGED <<orders_db, trades_db, portfolio_db, threads>>

GetInstruments ==
    /\ response' = get_instruments
    /\ UNCHANGED <<orders_db, trades_db, portfolio_db, threads>>

Next == PlaceOrder \/ GetOrderStatus \/ GetTrades \/ GetPortfolio \/ GetInstruments

Spec == Init /\ [][Next]_vars

\* the same server under place-order requests alone, one after the other
NextPlace == PlaceOrder

SpecPlace == Init /\ [][NextPlace]_vars

\* the same server, fed arbitrary request bodies
NextRaw == PlaceRawOrder \/ GetOrderStatus \/ GetTrades \/ GetPortfolio \/ GetInstruments

SpecRaw == Init /\ [][NextRaw]_vars

(***************************************************************************)
(* execute_order called on its own.  The server calls it once per MARKET   *)
(* order, from line 96; here a caller invokes it again on an order that is *)
(* EXECUTED already, or on an identifier that is not in orders_db.  A SELL  *)
(* is executed again only while the holding covers it, the condition lines *)
(* 73-76 establish before its first execution.                             *)
(***************************************************************************)
PlaceOrderExec == PlaceOrderFrom(Requests, MaxExecOrders)

ExecuteOrder ==
    \E order_id \in 1..(MaxExecOrders + 1) :
        LET out == execute_order(order_id, DB) IN
        /\ Len(trades_db) < MaxExecTrades
        /\ order_id \in DOMAIN orders_db =>
               /\ orders_db[order_id].status = "EXECUTED"
               /\ orders_db[order_id].orderType = "SELL" =>
                      HeldQuantity(portfolio_db, orders_db[order_id].symbol)
                          >= orders_db[order_id].quantity
        /\ orders_db' = out.orders
        /\ trades_db' = out.trades
        /\ portfolio_db' = out.portfolio
        /\ UNCHANGED <<response, threads>>

NextExec == PlaceOrderExec \/ ExecuteOrder

SpecExec == Init /\ [][NextExec]_vars

(***************************************************************************)
(* The threaded system.  app.run (line 214) starts the development server, *)
(* which handles each request in a thread of its own, and no handler takes *)
(* a lock: two place_order calls interleave statement by statement on the  *)
(* shared collections.  threads[t] holds the locals of the handler thread  *)
(* t runs and pc, the statement it runs next.  A return statement builds   *)
(* its answer with a call to jsonify, where the interpreter may switch to  *)
(* the other thread, so every answer is written in a step of its own:      *)
(* Refuse for the 400 of the validation chain, Fail for the 500 of lines   *)
(* 103-104, Respond for the 201.                                           *)
(*                                                                         *)
(* The local `holding` of execute_order is a reference to a dict.  While   *)
(* that dict is the value of portfolio_db[symbol] the local is "attached"  *)
(* and reads and writes go to the ledger; when another thread rebinds      *)
(* (line 182) or deletes (line 197) the key, the local keeps the old dict, *)
(* out of the ledger: it is "detached" and `own` is that dict.             *)
(***************************************************************************)
ConcBodies ==
    [orderType : {Some("BUY"), Some("SELL")},
     orderStyle : {Some("MARKET"), Some("LIMIT")},
     symbol : {Some("RELIANCE")},
     quantity : {Some(1), Some(2)},
     price : {Some(368000)}]

ConcRequests == {Some(b) : b \in ConcBodies}

InFlight == Cardinality({t \in Threads : threads[t].pc # "idle"})

\* the order a thread is executing, and its symbol
OrderOf(t) == orders_db[threads[t].order_id]

SymbolOf(t) == OrderOf(t).symbol

\* the dict the local `holding` of thread t refers to
HoldingOf(t) ==
    IF threads[t].ref = "attached"
    THEN Item(portfolio_db, SymbolOf(t))
    ELSE threads[t].own

\* the threads whose `holding` is the dict bound to symbol s in portfolio_db
AttachedTo(s) ==
    {u \in Threads : /\ threads[u].pc \notin {"idle", "validate", "insert", "refuse", "fail"}
                     /\ threads[u].ref = "attached"
                     /\ SymbolOf(u) = s}

\* thread t moves to `next`; the key s loses its dict, which the threads
\* attached to it keep as their own
Unbind(t, s, next) ==
    [u \in Threads |->
        IF u = t THEN next
        ELSE IF s \in Keys(portfolio_db) /\ u \in AttachedTo(s)
             THEN [threads[u] EXCEPT !.ref = "detached", !.own = Item(portfolio_db, s)]
             ELSE threads[u]]

\* holding[...] = ... by thread t, which moves to pc `to`
WriteHolding(t, h, to) ==
    IF threads[t].ref = "attached"
    THEN /\ portfolio_db' = SetItem(portfolio_db, SymbolOf(t), h)
         /\ threads' = [threads EXCEPT ![t].pc = to]
    ELSE /\ portfolio_db' = portfolio_db
         /\ threads' = [threads EXCEPT ![t].pc = to, ![t].own = h]

\* line 39: a request arrives and its handler starts
Receive(t) ==
    /\ threads[t].pc = "idle"
    /\ Len(orders_db) + InFlight < MaxConcOrders
    /\ \E data \in ConcRequests :
           threads' = [threads EXCEPT ![t] = [pc |-> "validate", data |-> data]]
    /\ UNCHANGED <<orders_db, trades_db, portfolio_db, response>>

\* the thread that raised an exception, on its way to lines 103-104
Failing(message) == [pc |-> "fail", message |-> message]

\* lines 42-75: the checks, up to the return of the one that fails
ValidateStep(t) ==
    /\ threads[t].pc = "validate"
    /\ LET m == Validate(threads[t].data, portfolio_db) IN
       IF m # ""
       THEN threads' = [threads EXCEPT ![t] = [pc |-> "refuse", message |-> m]]
       ELSE threads' = [threads EXCEPT ![t].pc = "insert"]
    /\ UNCHANGED <<orders_db, trades_db, portfolio_db, response>>

\* the return of the failed check (lines 43, 53, 56, 59, 62, 65, 70, 76)
Refuse(t) ==
    /\ threads[t].pc = "refuse"
    /\ response' = ErrorResponse(400, threads[t].message)
    /\ threads' = [threads EXCEPT ![t] = IdleThread]
    /\ UNCHANGED <<orders_db, trades_db, portfolio_db>>

\* lines 103-104: the answer to an exception
Fail(t) ==
    /\ threads[t].pc = "fail"
    /\ response' = ErrorResponse(500, threads[t].message)
    /\ threads' = [threads EXCEPT ![t] = IdleThread]
    /\ UNCHANGED <<orders_db, trades_db, portfolio_db>>

\* InsertStep storing the order under the identifier of the last order
InsertStep_ReusesId(t) ==
    /\ threads[t].pc = "insert"
    /\ LET order_id == IF orders_db = <<>> THEN 1 ELSE Len(orders_db)
           order    == NewOrder(threads[t].data[1], order_id)
       IN  /\ orders_db' = IF orders_db = <<>> THEN <<order>>
                           ELSE [orders_db EXCEPT ![order_id] = order]
           /\ threads' = [threads EXCEPT ![t] =
                  [pc |-> IF ExecutesImmediately(order) THEN "exec_status" ELSE "respond",
                   order_id |-> order_id,
                   ref |-> "none", own |-> EmptyHolding,
                   new_total_cost |-> Whole(0), new_quantity |-> 0]]
    /\ UNCHANGED <<trades_db, portfolio_db, response>>

\* lines 79-95
InsertStep(t) ==
    /\ threads[t].pc = "insert"
    /\ LET order_id == Len(orders_db) + 1
           order    == NewOrder(threads[t].data[1], order_id)
       IN  /\ orders_db' = Append(orders_db, order)
           /\ threads' = [threads EXCEPT ![t] =
                  [pc |-> IF ExecutesImmediately(order) THEN "exec_status" ELSE "respond",
                   order_id |-> order_id,
                   ref |-> "none", own |-> EmptyHolding,
                   new_total_cost |-> Whole(0), new_quantity |-> 0]]
    /\ UNCHANGED <<trades_db, portfolio_db, response>>

\* lines 159-164
ExecStatus(t) ==
    /\ threads[t].pc = "exec_status"
    /\ orders_db' = [orders_db EXCEPT ![threads[t].order_id].status = "EXECUTED"]
    /\ threads' = [threads EXCEPT ![t].pc = "exec_trade"]
    /\ UNCHANGED <<trades_db, portfolio_db, response>>

\* lines 167-177
ExecTrade(t) ==
    /\ threads[t].pc = "exec_trade"
    /\ trades_db' = Append(trades_db, NewTrade(OrderOf(t), Len(trades_db) + 1))
    /\ threads' = [threads EXCEPT ![t].pc = "exec_lookup"]
    /\ UNCHANGED <<orders_db, portfolio_db, response>>

\* lines 180-181: if symbol not in portfolio_db
ExecLookup(t) ==
    /\ threads[t].pc = "exec_lookup"
    /\ threads' = [threads EXCEPT ![t].pc =
           IF SymbolOf(t) \notin Keys(portfolio_db) THEN "exec_create" ELSE "exec_bind"]
    /\ UNCHANGED <<orders_db, trades_db, portfolio_db, response>>

\* line 182: portfolio_db[symbol] = {"quantity": 0, ...}
ExecCreate(t) ==
    /\ threads[t].pc = "exec_create"
    /\ portfolio_db' = SetItem(portfolio_db, SymbolOf(t), EmptyHolding)
    /\ threads' = Unbind(t, SymbolOf(t), [threads[t] EXCEPT !.pc = "exec_bind"])
    /\ UNCHANGED <<orders_db, trades_db, response>>

\* lines 184-186: holding = portfolio_db[symbol], a KeyError when the key
\* is gone; then the branch on orderType
ExecBind(t) ==
    /\ threads[t].pc = "exec_bind"
    /\ IF SymbolOf(t) \in Keys(portfolio_db)
       THEN threads' = [threads EXCEPT ![t].ref = "attached", ![t].pc =
                IF OrderOf(t).orderType = "BUY" THEN "buy_cost" ELSE "sell_dec"]
       ELSE threads' = [threads EXCEPT ![t] = Failing("'" \o SymbolOf(t) \o "'")]
    /\ UNCHANGED <<orders_db, trades_db, portfolio_db, response>>

\* line 188
BuyCost(t) ==
    /\ threads[t].pc = "buy_cost"
    /\ threads' = [threads EXCEPT ![t].pc = "buy_qty", ![t].new_total_cost =
           Plus(HoldingOf(t).totalCost, OrderOf(t).quantity * OrderOf(t).price)]
    /\ UNCHANGED <<orders_db, trades_db, portfolio_db, response>>

\* line 189
BuyQty(t) ==
    /\ threads[t].pc = "buy_qty"
    /\ threads' = [threads EXCEPT ![t].pc = "buy_set_qty", ![t].new_quantity =
           HoldingOf(t).quantity + OrderOf(t).quantity]
    /\ UNCHANGED <<orders_db, trades_db, portfolio_db, response>>

\* line 190
BuySetQty(t) ==
    /\ threads[t].pc = "buy_set_qty"
    /\ WriteHolding(t, [HoldingOf(t) EXCEPT !.quantity = threads[t].new_quantity],
                    "buy_set_cost")
    /\ UNCHANGED <<orders_db, trades_db, response>>

\* line 191
BuySetCost(t) ==
    /\ threads[t].pc = "buy_set_cost"
    /\ WriteHolding(t, [HoldingOf(t) EXCEPT !.totalCost = threads[t].new_total_cost],
                    "buy_set_avg")
    /\ UNCHANGED <<orders_db, trades_db, response>>

\* line 192, a ZeroDivisionError when new_quantity is 0
BuySetAvg(t) ==
    /\ threads[t].pc = "buy_set_avg"
    /\ IF threads[t].new_quantity = 0
       THEN /\ threads' = [threads EXCEPT ![t] = Failing("float division by zero")]
            /\ portfolio_db' = portfolio_db
       ELSE WriteHolding(t, [HoldingOf(t) EXCEPT !.averagePrice =
                Over(threads[t].new_total_cost, threads[t].new_quantity)], "respond")
    /\ UNCHANGED <<orders_db, trades_db, response>>

\* line 195: holding['quantity'] -= order['quantity']
SellDec(t) ==
    /\ threads[t].pc = "sell_dec"
    /\ WriteHolding(t, [HoldingOf(t) EXCEPT !.quantity = @ - OrderOf(t).quantity],
                    "sell_check")
    /\ UNCHANGED <<orders_db, trades_db, response>>

\* line 196: if holding['quantity'] == 0
SellCheck(t) ==
    /\ threads[t].pc = "sell_check"
    /\ threads' = [threads EXCEPT ![t].pc =
           IF HoldingOf(t).quantity = 0 THEN "sell_del" ELSE "sell_cost"]
    /\ UNCHANGED <<orders_db, trades_db, portfolio_db, response>>

\* line 197: del portfolio_db[symbol], a KeyError when the key is gone
SellDel(t) ==
    /\ threads[t].pc = "sell_del"
    /\ IF SymbolOf(t) \in Keys(portfolio_db)
       THEN /\ portfolio_db' = DelItem(portfolio_db, SymbolOf(t))
            /\ threads' = Unbind(t, SymbolOf(t), [threads[t] EXCEPT !.pc = "respond"])
       ELSE /\ portfolio_db' = portfolio_db
            /\ threads' = [threads EXCEPT ![t] = Failing("'" \o SymbolOf(t) \o "'")]
    /\ UNCHANGED <<orders_db, trades_db, response>>

\* line 199
SellCost(t) ==
    /\ threads[t].pc = "sell_cost"
    /\ WriteHolding(t, [HoldingOf(t) EXCEPT !.totalCost =
           Times(HoldingOf(t).quantity, HoldingOf(t).averagePrice)], "respond")
    /\ UNCHANGED <<orders_db, trades_db, response>>

\* lines 98-101
Respond(t) ==
    /\ threads[t].pc = "respond"
    /\ response' = SuccessResponse(201, OrderOf(t))
    /\ threads' = [threads EXCEPT ![t] = IdleThread]
    /\ UNCHANGED <<orders_db, trades_db, portfolio_db>>

NextConc ==
    \E t \in Threads :
        \/ Receive(t) \/ ValidateStep(t) \/ Refuse(t) \/ InsertStep(t)
        \/ ExecStatus(t) \/ ExecTrade(t) \/ ExecLookup(t) \/ ExecCreate(t) \/ ExecBind(t)
        \/ BuyCost(t) \/ BuyQty(t) \/ BuySetQty(t) \/ BuySetCost(t) \/ BuySetAvg(t)
        \/ SellDec(t) \/ SellCheck(t) \/ SellDel(t) \/ SellCost(t)
        \/ Respond(t) \/ Fail(t)

SpecConc == Init /\ [][NextConc]_vars

(***************************************************************************)
(* Properties.                                                             *)
(***************************************************************************)
Holdings == {portfolio_db[i] : i \in 1..Len(portfolio_db)}

\* the trades of one symbol and side
TradesOf(s, side) ==
    {i \in 1..Len(trades_db) : trades_db[i].symbol = s /\ trades_db[i].orderType = side}

\* C1: every symbol present in portfolio_db has quantity > 0; the ledger
\* never holds a zero-quantity or negative-quantity entry.
C1_QuantityPositive == \A e \in Holdings : e.holding.quantity > 0

\* C1 witness: two buys and then a sell that leaves one unit of its symbol
\* in the ledger.
C1_Witness ==
    /\ Len(trades_db) = 3
    /\ trades_db[3].orderType = "SELL"
    /\ trades_db[3].symbol \in Keys(portfolio_db)
    /\ HeldQuantity(portfolio_db, trades_db[3].symbol) = 1

\* C2: after any market buys and sells, every holding present satisfies
\* totalCost = quantity * averagePrice.
C2_CostIsQuantityTimesAverage ==
    \A e \in Holdings : e.holding.totalCost = Times(e.holding.quantity, e.holding.averagePrice)

\* C2 witness: two buys and one sell of the same symbol, the holding still present.
C2_Witness ==
    \E s \in Keys(portfolio_db) :
        /\ Cardinality(TradesOf(s, "BUY")) = 2
        /\ Cardinality(TradesOf(s, "SELL")) = 1
        /\ trades_db[3].orderType = "SELL"

(***************************************************************************)
(* Vocabulary of the claims about requests.                                *)
(***************************************************************************)
CatalogSymbols == {instruments_db[i].symbol : i \in 1..Len(instruments_db)}

LastTradedPrice(s) ==
    instruments_db[CHOOSE i \in 1..Len(instruments_db) : instruments_db[i].symbol = s].lastTradedPrice

\* the quantity held of the symbol a body names; no symbol, no holding
HeldOf(d) == IF d.symbol = None THEN 0 ELSE HeldQuantity(portfolio_db, d.symbol[1])

\* the collections are as they were
Untouched(out) ==
    /\ out.orders = orders_db
    /\ out.trades = trades_db
    /\ out.portfolio = portfolio_db

\* a 400 response with an error envelope, next to untouched collections
Rejected(out) ==
    /\ out.response.code = 400
    /\ out.response.status = "error"
    /\ DOMAIN out.response = {"code", "status", "message"}
    /\ Untouched(out)

\* the failures C4 lists
FailsValidation(data) ==
    \/ data = None
    \/ /\ data # None
       /\ LET d == data[1] IN
          \/ d.orderType \notin {Some("BUY"), Some("SELL")}
          \/ d.orderStyle \notin {Some("MARKET"), Some("LIMIT")}
          \/ d.symbol \in {None, Some("")}
          \/ d.quantity = None
          \/ d.quantity # None /\ d.quantity[1] <= 0
          \/ d.orderStyle = Some("LIMIT") /\ d.price = None
          \/ d.symbol # None /\ d.symbol[1] \notin CatalogSymbols
          \/ d.orderType = Some("SELL") /\ d.quantity # None /\ HeldOf(d) < d.quantity[1]

\* C4: every request that fails validation gets status 400 with an error
\* envelope, and orders_db, trades_db and portfolio_db stay as they were.
C4_RejectionLeavesState ==
    \A data \in RawRequests :
        FailsValidation(data) => Rejected(place_order(data, DB))

\* C4 witness: a sell was rejected for insufficient holdings after a buy had
\* executed; the order and the trade of the buy are all there is.
C4_Witness ==
    /\ response.code = 400
    /\ response.message = "Insufficient holdings to sell"
    /\ Len(orders_db) = 1
    /\ Len(trades_db) = 1
    /\ Len(portfolio_db) = 1

\* a SELL body that passes every check before the holdings check
SellOtherwiseValid(d) ==
    /\ d.orderType = Some("SELL")
    /\ d.orderStyle \in {Some("MARKET"), Some("LIMIT")}
    /\ d.symbol # None /\ d.symbol[1] \in CatalogSymbols
    /\ d.quantity # None /\ d.quantity[1] > 0
    /\ d.orderStyle = Some("LIMIT") => (d.price # None /\ d.price[1] > 0)

\* C5: a SELL (MARKET or LIMIT) asking for more than is held, no holding
\* counting as 0, is rejected with the collections unchanged, by the holdings
\* check when it passes the other checks; a SELL asking for no more than is
\* held is never rejected by the holdings check, and is accepted when it
\* passes the other checks.
C5_SellNeedsHoldings ==
    \A data \in RawRequests :
        (data # None /\ data[1].orderType = Some("SELL") /\ data[1].quantity # None) =>
            LET d   == data[1]
                out == place_order(data, DB)
            IN  IF HeldOf(d) < d.quantity[1]
                THEN /\ Rejected(out)
                     /\ SellOtherwiseValid(d) =>
                            out.response.message = "Insufficient holdings to sell"
                ELSE /\ out.response.code = 400 =>
                            out.response.message # "Insufficient holdings to sell"
                     /\ SellOtherwiseValid(d) => out.response.code = 201

\* C5 witness: one unit is held and a sell of more was just refused.
C5_Witness ==
    /\ response.code = 400
    /\ response.message = "Insufficient holdings to sell"
    /\ \E e \in Holdings : e.holding.quantity = 1

\* a well-formed MARKET BUY body
ValidMarketBuy(d) ==
    /\ d.orderType = Some("BUY")
    /\ d.orderStyle = Some("MARKET")
    /\ d.symbol # None /\ d.symbol[1] \in CatalogSymbols
    /\ d.quantity # None /\ d.quantity[1] > 0

\* C6: a valid MARKET BUY of q at lastTradedPrice p returns 201 with the
\* order EXECUTED and stored, appends exactly one trade (that orderId, q, p)
\* and changes only that symbol's holding: quantity + q, totalCost + q*p,
\* averagePrice = new totalCost / new quantity.
C6_MarketBuy ==
    \A data \in Requests :
        (data # None /\ ValidMarketBuy(data[1])) =>
            LET d     == data[1]
                s     == d.symbol[1]
                q     == d.quantity[1]
                p     == LastTradedPrice(s)
                out   == place_order(data, DB)
                order == out.response.data
                old   == IF s \in Keys(portfolio_db) THEN Item(portfolio_db, s) ELSE EmptyHolding
            IN  /\ out.response.code = 201
                /\ out.response.status = "success"
                /\ order.status = "EXECUTED"
                /\ order.symbol = s /\ order.quantity = q /\ order.orderType = "BUY"
                /\ out.orders = Append(orders_db, order)
                /\ Len(out.trades) = Len(trades_db) + 1
                /\ SubSeq(out.trades, 1, Len(trades_db)) = trades_db
                /\ LET t == out.trades[Len(out.trades)] IN
                       /\ t.orderId = order.orderId
                       /\ t.quantity = q
                       /\ t.price = p
                       /\ t.symbol = s
                /\ Keys(out.portfolio) = Keys(portfolio_db) \cup {s}
                /\ \A x \in Keys(portfolio_db) \ {s} :
                       Item(out.portfolio, x) = Item(portfolio_db, x)
                /\ LET new == Item(out.portfolio, s) IN
                       /\ new.quantity = old.quantity + q
                       /\ new.totalCost = Plus(old.totalCost, q * p)
                       /\ Times(new.quantity, new.averagePrice) = new.totalCost

\* C6 witness: the last request was a market buy that added to a holding of
\* its symbol while another symbol is held too.
C6_Witness ==
    /\ response.code = 201
    /\ Len(orders_db) = 3
    /\ response.data = orders_db[3]
    /\ response.data.orderType = "BUY"
    /\ response.data.orderStyle = "MARKET"
    /\ response.data.status = "EXECUTED"
    /\ HeldQuantity(portfolio_db, response.data.symbol) > response.data.quantity
    /\ Cardinality(Keys(portfolio_db)) = 2

\* an order of the given style, side, symbol and quantity
IsOrder(o, style, side, s, q) ==
    /\ o.orderStyle = style
    /\ o.orderType = side
    /\ o.symbol = s
    /\ o.quantity = q

\* C7: a MARKET SELL of exactly the quantity held removes the symbol from
\* portfolio_db and appends one trade; from the empty state, a market buy of
\* q and a market sell of q leave no entry for the symbol and two trades.
C7_ExhaustingSell ==
    /\ \A data \in Requests :
           (/\ data # None
            /\ data[1].orderType = Some("SELL")
            /\ data[1].orderStyle = Some("MARKET")
            /\ data[1].quantity # None
            /\ data[1].quantity[1] > 0
            /\ HeldOf(data[1]) = data[1].quantity[1]) =>
               LET out == place_order(data, DB) IN
               /\ data[1].symbol[1] \notin Keys(out.portfolio)
               /\ Len(out.trades) = Len(trades_db) + 1
               /\ out.trades[Len(out.trades)].orderId = Len(orders_db) + 1
               /\ out.trades[Len(out.trades)].orderType = "SELL"
    /\ \A s \in CatalogSymbols : \A q \in 1..2 :
           (/\ Len(orders_db) = 2
            /\ IsOrder(orders_db[1], "MARKET", "BUY", s, q)
            /\ IsOrder(orders_db[2], "MARKET", "SELL", s, q)) =>
               /\ s \notin Keys(portfolio_db)
               /\ Len(trades_db) = 2

\* C7 witness: a buy of 2 and then a sell of 2 of the same symbol have run.
C7_Witness ==
    /\ Len(orders_db) = 2
    /\ IsOrder(orders_db[1], "MARKET", "BUY", "RELIANCE", 2)
    /\ IsOrder(orders_db[2], "MARKET", "SELL", "RELIANCE", 2)
    /\ response.code = 201
    /\ response.data = orders_db[2]

\* what placing an accepted LIMIT request does
LimitPlacement ==
    \A data \in Requests :
        (/\ data # None
         /\ data[1].orderStyle = Some("LIMIT")
         /\ Validate(data, portfolio_db) = "") =>
            LET out == place_order(data, DB) IN
            /\ out.response.code = 201
            /\ out.response.data.status = "PLACED"
            /\ out.response.data.orderStyle = "LIMIT"
            /\ out.orders = Append(orders_db, out.response.data)
            /\ out.trades = trades_db
            /\ out.portfolio = portfolio_db

\* a stored LIMIT order is PLACED now and after the step
LimitStaysPlaced ==
    \A i \in 1..Len(orders_db) :
        orders_db[i].orderStyle = "LIMIT" =>
            /\ orders_db[i].status = "PLACED"
            /\ i \in 1..Len(orders_db')
            /\ orders_db'[i] = orders_db[i]

\* C8: placing a valid LIMIT order (BUY or SELL) stores it with status
\* PLACED, appends no trade and leaves portfolio_db unchanged, and the order
\* stays PLACED in every later state.
C8_LimitOrderStaysPlaced == [](LimitPlacement) /\ [][LimitStaysPlaced]_vars

\* C8 witness: a LIMIT SELL was placed first among three orders, market
\* orders have executed after it, and it is still PLACED.
C8_Witness ==
    /\ Len(orders_db) = 3
    /\ orders_db[2].orderStyle = "LIMIT"
    /\ orders_db[2].orderType = "SELL"
    /\ orders_db[2].status = "PLACED"
    /\ orders_db[3].status = "EXECUTED"
    /\ Len(trades_db) = 2

\* the trades that carry an order's identifier
TradesFor(order_id) == {i \in 1..Len(trades_db) : trades_db[i].orderId = order_id}

\* C9: trades and executed orders correspond one to one: an EXECUTED order
\* has exactly one trade, every trade names a stored order that is EXECUTED
\* and MARKET, and no two trades share an orderId.
C9_TradesMatchExecutedOrders ==
    /\ \A i \in 1..Len(orders_db) :
           orders_db[i].status = "EXECUTED" =>
               Cardinality(TradesFor(orders_db[i].orderId)) = 1
    /\ \A j \in 1..Len(trades_db) :
           /\ trades_db[j].orderId \in 1..Len(orders_db)
           /\ orders_db[trades_db[j].orderId].orderId = trades_db[j].orderId
           /\ orders_db[trades_db[j].orderId].status = "EXECUTED"
           /\ orders_db[trades_db[j].orderId].orderStyle = "MARKET"
    /\ \A j, k \in 1..Len(trades_db) :
           trades_db[j].orderId = trades_db[k].orderId => j = k

\* C9 witness: two executed market orders around a LIMIT order that has no trade.
C9_Witness ==
    /\ Len(orders_db) = 3
    /\ Len(trades_db) = 2
    /\ orders_db[2].orderStyle = "LIMIT"
    /\ trades_db[2].orderId = 3

\* the checks in the order C10 gives them, each with its message
RuleViolated(data) ==
    IF data = None
    THEN <<TRUE, FALSE, FALSE, FALSE, FALSE, FALSE, FALSE, FALSE>>
    ELSE LET d == data[1] IN
         << FALSE,
            d.orderType \notin {Some("BUY"), Some("SELL")},
            d.orderStyle \notin {Some("MARKET"), Some("LIMIT")},
            d.symbol \in {None, Some("")},
            d.quantity = None \/ d.quantity[1] <= 0,
            d.orderStyle = Some("LIMIT") /\ d.price \in {None, Some(0)},
            d.symbol = None \/ d.symbol[1] \notin CatalogSymbols,
            d.orderType = Some("SELL") /\ d.quantity # None /\ HeldOf(d) < d.quantity[1] >>

RuleMessage(data) ==
    << "Request body is required",
       "orderType must be BUY or SELL",
       "orderStyle must be MARKET or LIMIT",
       "symbol is required",
       "quantity must be greater than 0",
       "price is required for LIMIT orders",
       IF data # None /\ data[1].symbol # None
       THEN "Invalid symbol: " \o data[1].symbol[1] ELSE "Invalid symbol: ",
       "Insufficient holdings to sell" >>

\* C10: the checks run in the order body, orderType, orderStyle, symbol,
\* quantity, price for LIMIT, catalog, holdings for SELL, and the earliest
\* violated rule alone decides the message; a request violating none is
\* accepted.  The price rule counts a price as missing the way the handler
\* reads it (no price, or a price of 0).
C10_FirstFailureWins ==
    \A data \in RawRequests :
        LET v   == RuleViolated(data)
            bad == {k \in 1..8 : v[k]}
            out == place_order(data, DB)
        IN  IF bad = {}
            THEN out.response.code = 201
            ELSE LET first == CHOOSE k \in bad : \A j \in bad : k <= j IN
                 /\ out.response.code = 400
                 /\ out.response.message = RuleMessage(data)[first]

\* C10 witness: a request that broke the holdings rule, the last of the
\* chain, was answered with that rule's message.
C10_Witness ==
    /\ response.code = 400
    /\ response.message = "Insufficient holdings to sell"
    /\ Len(trades_db) = 1
    /\ trades_db[1].quantity = 2

\* the quantity of a symbol in the trades of one side
RECURSIVE TradedUpTo(_, _, _)
TradedUpTo(n, s, side) ==
    IF n = 0 THEN 0
    ELSE TradedUpTo(n - 1, s, side)
         + (IF trades_db[n].symbol = s /\ trades_db[n].orderType = side
            THEN trades_db[n].quantity ELSE 0)

Traded(s, side) == TradedUpTo(Len(trades_db), s, side)

\* C3: with two place-order requests in flight, each runs to completion
\* before the other: no holding quantity ever becomes negative, and the
\* sells recorded for a symbol never add up to more than its buys.
C3_PlacementsSerialized ==
    /\ \A e \in Holdings : e.holding.quantity >= 0
    /\ \A s \in CatalogSymbols : Traded(s, "SELL") <= Traded(s, "BUY")

(***************************************************************************)
(* Claims on the stored price, the trade log, the lookups and the ledger.  *)
(***************************************************************************)
\* C11: the price stored on an accepted order is the caller's price when the
\* order is LIMIT and the catalog lastTradedPrice of its symbol when it is
\* MARKET, whatever price field the MARKET request carries; the trade of a
\* market order carries that same resolved price.
C11_ResolvedPrice ==
    \A data \in RawRequests :
        LET out == place_order(data, DB) IN
        out.response.code = 201 =>
            LET d     == data[1]
                order == out.orders[Len(out.orders)]
            IN  /\ Len(out.orders) = Len(orders_db) + 1
                /\ order.symbol = d.symbol[1]
                /\ d.orderStyle = Some("LIMIT") =>
                       /\ order.price = d.price[1]
                       /\ out.trades = trades_db
                /\ d.orderStyle = Some("MARKET") =>
                       /\ order.price = LastTradedPrice(d.symbol[1])
                       /\ Len(out.trades) = Len(trades_db) + 1
                       /\ out.trades[Len(out.trades)].orderId = order.orderId
                       /\ out.trades[Len(out.trades)].price = order.price
                /\ out.response.data.price = order.price

\* C11 witness: a market order is stored at the lastTradedPrice of TCS,
\* which differs from every price a request of the run carries, and its
\* trade has that price.
C11_Witness ==
    /\ Len(orders_db) = 1 /\ Len(trades_db) = 1
    /\ response.code = 201
    /\ orders_db[1].orderStyle = "MARKET"
    /\ orders_db[1].symbol = "TCS"
    /\ orders_db[1].price = 368025
    /\ trades_db[1].orderId = orders_db[1].orderId
    /\ trades_db[1].price = 368025
    /\ 368025 \notin {b.price[1] : b \in {r \in RawBodies : r.price # None}}

\* one step keeps every recorded trade where it was, as it was
TradeLogExtended ==
    /\ Len(trades_db') >= Len(trades_db)
    /\ SubSeq(trades_db', 1, Len(trades_db)) = trades_db

\* C12: the trade log is append-only and ordered: the log of an earlier
\* state is a prefix of the log of every later state (no trade is removed,
\* reordered or modified), and the list-trades operation returns all the
\* recorded trades in insertion order.
C12_TradeLogAppendOnly ==
    /\ [](get_trades(trades_db) = SuccessResponse(200, trades_db))
    /\ [][TradeLogExtended]_vars

\* C12 witness: three trades were appended one request after the other,
\* tradeIds in order of arrival, and the listing of this state has all three.
C12_Witness ==
    /\ Len(trades_db) = 3
    /\ \A i \in 1..3 : trades_db[i].orderId = orders_db[i].orderId
    /\ trades_db[1].orderType = "BUY" /\ trades_db[3].orderType = "SELL"
    /\ trades_db[1].symbol # trades_db[2].symbol
    /\ Len(get_trades(trades_db).data) = 3
    /\ response.code = 200

\* the identifiers of the orders accepted so far
AcceptedIds == {orders_db[i].orderId : i \in 1..Len(orders_db)}

\* the stored order of an accepted identifier
StoredOrder(order_id) ==
    orders_db[CHOOSE i \in 1..Len(orders_db) : orders_db[i].orderId = order_id]

\* what a lookup answers in this state, for known and unknown identifiers
LookupAnswers ==
    \A order_id \in 1..(MaxOrders + 1) :
        LET r == get_order_status(order_id, orders_db) IN
        IF order_id \in AcceptedIds
        THEN /\ r.code = 200 /\ r.status = "success"
             /\ r.data = StoredOrder(order_id)
             /\ r.data.status \in {"PLACED", "EXECUTED"}
        ELSE r = [code |-> 404, status |-> "error", message |-> "Order not found"]

\* a step that answers 200 or 404, as the lookups do and no placement does,
\* leaves the collections as they were, and its 404 has the message of line 114
LookupStep ==
    /\ response'.code \in {200, 404} => UNCHANGED dbs
    /\ response'.code = 404 => response'.message = "Order not found"

\* C13: looking up an unknown identifier returns 404 with the message
\* "Order not found"; looking up the identifier of any order ever accepted
\* returns 200 with the stored order in its current status; neither lookup
\* changes the order book, the trade log or the portfolio ledger.
C13_OrderLookup ==
    /\ [](LookupAnswers)
    /\ [][LookupStep]_vars

\* C13 witness: with three orders accepted, the first of them executed and
\* found by a lookup in that status, the last answer is that of a lookup of
\* an identifier nobody was given.
C13_Witness ==
    /\ Len(orders_db) = 3
    /\ response.code = 404
    /\ response = get_order_status(4, orders_db)
    /\ get_order_status(1, orders_db).data.status = "EXECUTED"
    /\ get_order_status(2, orders_db).data.status = "PLACED"

\* a body that gets past the checks of lines 42-62 and asks for a LIMIT order
ReachesPriceCheck(data) ==
    /\ data # None
    /\ ~BadOrderType(data[1])
    /\ ~BadOrderStyle(data[1])
    /\ ~SymbolMissing(data[1])
    /\ ~BadQuantity(data[1])
    /\ data[1].orderStyle = Some("LIMIT")

\* the answer of the price check of lines 64-65
RejectedForPrice(out) ==
    /\ out.response.code = 400
    /\ out.response.message = "price is required for LIMIT orders"

\* C14: the LIMIT price check rejects exactly when the price is absent: a
\* LIMIT request that passes the earlier checks and carries any price value,
\* 0 and negative values included, is not rejected by the price check.
C14_PriceCheckRejectsAbsentOnly ==
    \A data \in RawRequests :
        ReachesPriceCheck(data) =>
            (RejectedForPrice(place_order(data, DB)) <=> data[1].price = None)

\* a well-formed MARKET SELL body
ValidMarketSell(d) ==
    /\ d.orderType = Some("SELL")
    /\ d.orderStyle = Some("MARKET")
    /\ d.symbol # None /\ d.symbol[1] \in CatalogSymbols
    /\ d.quantity # None /\ d.quantity[1] > 0

\* C15: a MARKET SELL that leaves a positive remainder keeps the holding's
\* averagePrice exactly as it was, sets its quantity to the old quantity
\* minus the sold quantity and its totalCost to the new quantity times the
\* averagePrice; the holdings of other symbols are unchanged.
C15_PartialSell ==
    \A data \in Requests :
        (/\ data # None
         /\ ValidMarketSell(data[1])
         /\ HeldOf(data[1]) > data[1].quantity[1]) =>
            LET s   == data[1].symbol[1]
                q   == data[1].quantity[1]
                old == Item(portfolio_db, s)
                out == place_order(data, DB)
                new == Item(out.portfolio, s)
            IN  /\ out.response.code = 201
                /\ out.response.data.status = "EXECUTED"
                /\ Keys(out.portfolio) = Keys(portfolio_db)
                /\ new.averagePrice = old.averagePrice
                /\ new.quantity = old.quantity - q
                /\ new.totalCost = Times(new.quantity, old.averagePrice)
                /\ \A x \in Keys(portfolio_db) \ {s} :
                       Item(out.portfolio, x) = Item(portfolio_db, x)

\* C15 witness: the last request sold one unit of a holding of two by a
\* market order, one unit is left at the price paid, and a second symbol is
\* held alongside.
C15_Witness ==
    /\ response.code = 201
    /\ Len(orders_db) = 3
    /\ orders_db[3].orderType = "SELL" /\ orders_db[3].orderStyle = "MARKET"
    /\ orders_db[3].quantity = 1
    /\ orders_db[1].orderType = "BUY" /\ orders_db[1].quantity = 2
    /\ orders_db[1].symbol = orders_db[3].symbol
    /\ orders_db[1].status = "EXECUTED"
    /\ orders_db[2].symbol # orders_db[3].symbol
    /\ Cardinality(Keys(portfolio_db)) = 2
    /\ Item(portfolio_db, orders_db[3].symbol) =
           [quantity |-> 1, totalCost |-> Whole(orders_db[1].price),
            averagePrice |-> Whole(orders_db[1].price)]

\* one step keeps every stored order, with every field but the status as it
\* was, and takes no order out of EXECUTED
OrdersKept ==
    /\ Len(orders_db') >= Len(orders_db)
    /\ \A i \in 1..Len(orders_db) :
           /\ orders_db'[i].orderId = orders_db[i].orderId
           /\ orders_db'[i].symbol = orders_db[i].symbol
           /\ orders_db'[i].orderType = orders_db[i].orderType
           /\ orders_db'[i].orderStyle = orders_db[i].orderStyle
           /\ orders_db'[i].quantity = orders_db[i].quantity
           /\ orders_db'[i].price = orders_db[i].price
           /\ orders_db'[i].status \in {orders_db[i].status, "EXECUTED"}

\* C16: the order book is append-only except for status: an inserted order
\* is never deleted, its orderId, symbol, orderType, orderStyle, quantity and
\* price never change afterwards, and its status only ever moves from PLACED
\* to EXECUTED, never back, across any sequence of operations, those of
\* requests handled at the same time included.
C16_OrderBookAppendOnly == [][OrdersKept]_vars

\* C16 witness: the first order is executed, and the second, a market order
\* inserted a moment ago, is still PLACED while its thread is about to mark it.
C16_Witness ==
    /\ Len(orders_db) = 2
    /\ orders_db[1].status = "EXECUTED"
    /\ orders_db[2].orderStyle = "MARKET"
    /\ orders_db[2].status = "PLACED"
    /\ \E t \in Threads :
           /\ threads[t].pc = "exec_status"
           /\ threads[t].order_id = 2

\* the projection of this state has exactly one entry for each symbol of the
\* ledger, with the holding's quantity and averagePrice and the quantity
\* valued at the catalog price
ProjectionComplete ==
    LET r == get_portfolio(portfolio_db) IN
    /\ r.code = 200 /\ r.status = "success"
    /\ Len(r.data) = Cardinality(Keys(portfolio_db))
    /\ {r.data[i].symbol : i \in 1..Len(r.data)} = Keys(portfolio_db)
    /\ \A i \in 1..Len(r.data) :
           LET holding == Item(portfolio_db, r.data[i].symbol) IN
           r.data[i] = [symbol       |-> r.data[i].symbol,
                        quantity     |-> holding.quantity,
                        averagePrice |-> holding.averagePrice,
                        currentValue |->
                            holding.quantity * LastTradedPrice(r.data[i].symbol)]

\* a step that answers 200, as the projection does and no placement does,
\* leaves the three collections as they were
ProjectionStep ==
    response'.code = 200 =>
        /\ orders_db' = orders_db
        /\ trades_db' = trades_db
        /\ portfolio_db' = portfolio_db

\* C17: the portfolio projection is read-only and complete: it changes
\* neither the ledger nor the order book nor the trade log (the catalog is
\* constant), and it returns exactly one entry per symbol of the ledger, with
\* that holding's quantity, averagePrice and currentValue = quantity times
\* the catalog lastTradedPrice.
C17_PortfolioProjection ==
    /\ [](ProjectionComplete)
    /\ [][ProjectionStep]_vars

\* C17 witness: two symbols are held, two units of the first, and the
\* projection of the state values them at two times the catalog price.
C17_Witness ==
    /\ Len(portfolio_db) = 2
    /\ portfolio_db[1].holding.quantity = 2
    /\ portfolio_db[2].holding.quantity = 1
    /\ Len(get_portfolio(portfolio_db).data) = 2
    /\ get_portfolio(portfolio_db).data[1].currentValue =
           2 * LastTradedPrice(portfolio_db[1].symbol)
    /\ response.code = 200
    /\ Len(orders_db) = 2

\* the quantity an execution of the order adds to the holding of its symbol
Delta(order) == IF order.orderType = "BUY" THEN order.quantity ELSE 0 - order.quantity

\* what n further calls of execute_order on order_id make of the collections
Executed(n, order_id) ==
    IF n = 0 THEN DB
    ELSE IF n = 1 THEN execute_order(order_id, DB)
    ELSE execute_order(order_id, execute_order(order_id, DB))

\* n further calls on a stored order append n trades that carry its
\* identifier and move the holding of its symbol by n times its delta,
\* leaving the other holdings as they were
Reapplied(n, order_id) ==
    LET order == orders_db[order_id]
        out   == Executed(n, order_id)
    IN  /\ Len(out.trades) = Len(trades_db) + n
        /\ SubSeq(out.trades, 1, Len(trades_db)) = trades_db
        /\ \A i \in (Len(trades_db) + 1)..Len(out.trades) :
               /\ out.trades[i].orderId = order.orderId
               /\ out.trades[i].quantity = order.quantity
               /\ out.trades[i].orderType = order.orderType
        /\ HeldQuantity(out.portfolio, order.symbol) =
               HeldQuantity(portfolio_db, order.symbol) + n * Delta(order)
        /\ \A x \in Keys(portfolio_db) \ {order.symbol} :
               x \in Keys(out.portfolio) /\ Item(out.portfolio, x) = Item(portfolio_db, x)
        /\ out.orders = [orders_db EXCEPT ![order_id].status = "EXECUTED"]

\* C18: execute_order is not idempotent on an existing order: a second call
\* on the same identifier appends a second trade with that orderId and
\* applies the order's portfolio delta a second time (a BUY of q raises the
\* holding by 2q in total), while a call on an identifier that is not in the
\* order book changes nothing.
C18_ExecutionNotIdempotent ==
    \A order_id \in 1..(MaxExecOrders + 1) :
        IF order_id \in DOMAIN orders_db
        THEN Reapplied(1, order_id) /\ Reapplied(2, order_id)
        ELSE execute_order(order_id, DB) = DB

\* C18 witness: the one order of the book, a market buy of two units, was
\* executed by its placement and once more after it: two trades carry its
\* identifier and four units are held.
C18_Witness ==
    /\ Len(orders_db) = 1
    /\ orders_db[1].orderType = "BUY" /\ orders_db[1].quantity = 2
    /\ orders_db[1].status = "EXECUTED"
    /\ Len(trades_db) = 2
    /\ TradesFor(orders_db[1].orderId) = {1, 2}
    /\ HeldQuantity(portfolio_db, orders_db[1].symbol) = 4

\* C19: conservation of quantity: for every catalog symbol, the quantity
\* held in the ledger (0 when the symbol is absent) equals the sum of the
\* quantities of its BUY trades minus the sum of the quantities of its SELL
\* trades, in every state reachable by sequential place-order requests.
C19_QuantityConserved ==
    \A s \in CatalogSymbols :
        HeldQuantity(portfolio_db, s) = Traded(s, "BUY") - Traded(s, "SELL")

\* C19 witness: four units of a symbol were bought in two trades and one
\* sold in a third; three are held.
C19_Witness ==
    \E s \in CatalogSymbols :
        /\ Cardinality(TradesOf(s, "BUY")) = 2
        /\ Traded(s, "BUY") = 4
        /\ Traded(s, "SELL") = 1
        /\ HeldQuantity(portfolio_db, s) = 3

\* C20: the catalog is never written and only MARKET orders execute, so the
\* price of every trade is the catalog lastTradedPrice of its symbol, and in
\* every reachable state the averagePrice of each holding is that
\* lastTradedPrice and its totalCost is the currentValue the portfolio
\* projection reports for it.
C20_AverageIsCatalogPrice ==
    /\ \A i \in 1..Len(trades_db) :
           trades_db[i].price = LastTradedPrice(trades_db[i].symbol)
    /\ \A i \in 1..Len(portfolio_db) :
           LET e    == portfolio_db[i]
               view == get_portfolio(portfolio_db).data[i]
           IN  /\ view.symbol = e.symbol
               /\ e.holding.averagePrice = Whole(LastTradedPrice(e.symbol))
               /\ e.holding.totalCost = Whole(view.currentValue)

\* C20 witness: a holding built by two market buys and held next to a limit
\* order of the same symbol at another price is still at the catalog price.
C20_Witness ==
    /\ Len(orders_db) = 3
    /\ orders_db[1].symbol = "RELIANCE" /\ orders_db[1].status = "EXECUTED"
    /\ orders_db[2] = [orders_db[1] EXCEPT !.orderId = 2, !.orderStyle = "LIMIT",
                                           !.price = 368000, !.status = "PLACED"]
    /\ orders_db[3].symbol = "RELIANCE" /\ orders_db[3].status = "EXECUTED"
    /\ orders_db[3].orderType = "BUY"
    /\ Len(trades_db) = 2
    /\ Item(portfolio_db, "RELIANCE").quantity = 4
    /\ Item(portfolio_db, "RELIANCE").averagePrice = Whole(245050)
    /\ Item(portfolio_db, "RELIANCE").totalCost = Whole(980200)

====
